---- MODULE Spec2Model ----
(***************************************************************************)
(* State-machine model of the minimum-weight perfect matching decoder of   *)
(* src/dec_mwpm.py (classes toric and planar): defect extraction, edge     *)
(* weights, the two oracle adapters, the boundary filter and the path      *)
(* walker that applies the correction.                                     *)
(*                                                                         *)
(* A stabilizer is identified by its sID <<type, row, column>>, type 0 for *)
(* vertices (stars) and 1 for plaquettes.  A node of a defect list is a    *)
(* record [kind, sID], kind "iStab" for an object of graph.S and           *)
(* "iBoundary" for an object of graph.B.  An edge object is identified by  *)
(* <<type, axis, row, column>>: axis "v" is the edge below stabilizer      *)
(* (row, column), axis "h" the edge to its right.  edge.state and          *)
(* edge.matching are kept as the sets of edges on which they are True.     *)
(***************************************************************************)
EXTENDS Integers, Sequences, FiniteSets, TLC

VARIABLES gtype, size, active, estate, ematching, matching, pc, oracle,
          anyons, edges, graph, err, pre, hist, napply, trail

vars == <<gtype, size, active, estate, ematching, matching, pc, oracle,
          anyons, edges, graph, err, pre, hist, napply, trail>>

(***************************************************************************)
(* gtype, size   graph.type and graph.size                                 *)
(* active        the sIDs of the stabilizers with stab.state True          *)
(* estate        the edges with edge.state True                            *)
(* ematching     the edges with edge.matching True                         *)
(* matching      self.matching, a sequence of pairs <<v0, v1>> of nodes    *)
(* pc            "start", "edges", "matched", "filtered", "applied", or    *)
(*               "failed" once a call has raised                           *)
(* oracle        the adapter that produced self.matching                   *)
(* anyons, edges the node list and edge list of each partition, as last    *)
(*               built by get_stabs and get_edges                          *)
(* graph         the graph each oracle call was handed                     *)
(* err           a call raised (IndexError, KeyError)                      *)
(* pre           self.matching before remove_virtual                       *)
(* hist          edge.state of all edges before each call of               *)
(*               apply_matching                                            *)
(* napply        the number of calls of apply_matching                     *)
(* trail         per matched pair, the walks of the last apply_matching    *)
(***************************************************************************)

(***************************************************************************)
(* Bounds of the model.  Spec decodes lattices of sizes 2..MaxSize holding *)
(* up to MaxDefects defects and applies a matching up to MaxApply times;   *)
(* SpecWide decodes sizes 3..WideSize with up to WideDefects defects, at   *)
(* most WidePerType of one check type; SpecEdges builds the edge lists of  *)
(* up to MaxList defects of one check type on sizes 2..EdgeSize.           *)
(***************************************************************************)
MaxSize == 3
MaxDefects == 2
MaxApply == 3
WideSize == 4
WidePerType == 2
WideDefects == 3
EdgeSize == 4
MaxList == 3

Min2(a, b) == IF a < b THEN a ELSE b
Abs(a) == IF a < 0 THEN -a ELSE a

(***************************************************************************)
(* The lattice (graph_objects / lattice construction).                     *)
(***************************************************************************)
\* graph.S.values(): graph.S holds one stabilizer of each type at every
\* (row, column) of the size x size grid, in construction order (type, row,
\* column).
SValues(sz) ==
    [k \in 1..(2 * sz * sz) |->
        <<(k - 1) \div (sz * sz), ((k - 1) % (sz * sz)) \div sz, (k - 1) % sz>>]

iStab(sID) == [kind |-> "iStab", sID |-> sID]
iBoundary(sID) == [kind |-> "iBoundary", sID |-> sID]

\* graph.B[key]: the boundary object stored under key.
B(key) == iBoundary(key)

\* stab.neighbors[dir] = (neighbour stabilizer, incident edge); ok is FALSE
\* when the link is absent.  Toric: 'u'/'l' decrease and 'd'/'r' increase the
\* row/column modulo size.  Planar: no wrap-around, links off the grid are
\* absent.
Neighbor(gt, sz, node, dir) ==
    LET t == node.sID[1]
        y == node.sID[2]
        x == node.sID[3]
        ny == CASE dir = "u" -> y - 1 [] dir = "d" -> y + 1 [] OTHER -> y
        nx == CASE dir = "l" -> x - 1 [] dir = "r" -> x + 1 [] OTHER -> x
        ey == IF dir = "u" THEN y - 1 ELSE y
        ex == IF dir = "l" THEN x - 1 ELSE x
        ax == IF dir \in {"u", "d"} THEN "v" ELSE "h"
    IN  IF gt = "toric"
        THEN [ok |-> TRUE,
              node |-> iStab(<<t, ny % sz, nx % sz>>),
              edge |-> <<t, ax, ey % sz, ex % sz>>]
        ELSE IF node.kind = "iStab" /\ ny \in 0..(sz - 1) /\ nx \in 0..(sz - 1)
             THEN [ok |-> TRUE, node |-> iStab(<<t, ny, nx>>), edge |-> <<t, ax, ey, ex>>]
             ELSE [ok |-> FALSE, node |-> node, edge |-> <<t, ax, ey, ex>>]

(***************************************************************************)
(* Python list helpers.                                                    *)
(***************************************************************************)
\* s[:k]
SliceTo(s, k) ==
    IF k >= 0 THEN SubSeq(s, 1, Min2(k, Len(s)))
    ELSE SubSeq(s, 1, IF Len(s) + k > 0 THEN Len(s) + k ELSE 0)

\* s[a:b] for 0 <= a
SliceFromTo(s, a, b) == SubSeq(s, a + 1, Min2(b, Len(s)))

\* s[a:] for 0 <= a
SliceFrom(s, a) == SubSeq(s, a + 1, Len(s))

\* The concatenation of f[1] \o ... \o f[n] for a sequence f of sequences.
RECURSIVE Flatten(_)
Flatten(f) == IF f = <<>> THEN <<>> ELSE Flatten(SubSeq(f, 1, Len(f) - 1)) \o f[Len(f)]

(***************************************************************************)
(* Defect extraction.                                                      *)
(***************************************************************************)
\* toric.get_stabs
toric_get_stabs(sz, act) ==
    LET on == SelectSeq(SValues(sz), LAMBDA s : s \in act)
        v == SelectSeq(on, LAMBDA s : s[1] = 0)
        p == SelectSeq(on, LAMBDA s : s[1] # 0)
    IN  [verts |-> [i \in 1..Len(v) |-> iStab(v[i])],
         plaqs |-> [i \in 1..Len(p) |-> iStab(p[i])]]

\* The boundary companion planar.get_stabs appends for an active stabilizer.
Companion(sz, s) ==
    IF s[1] = 0
    THEN IF 2 * s[3] < sz THEN B(<<s[1], s[2], 0>>) ELSE B(<<s[1], s[2], sz>>)
    ELSE IF 2 * s[2] < sz THEN B(<<s[1], -1, s[3]>>) ELSE B(<<s[1], sz - 1, s[3]>>)

\* planar.get_stabs
planar_get_stabs(sz, act) ==
    LET on == SelectSeq(SValues(sz), LAMBDA s : s \in act)
        v == SelectSeq(on, LAMBDA s : s[1] = 0)
        p == SelectSeq(on, LAMBDA s : s[1] # 0)
        verts == [i \in 1..Len(v) |-> iStab(v[i])]
        plaqs == [i \in 1..Len(p) |-> iStab(p[i])]
        tv == [i \in 1..Len(v) |-> Companion(sz, v[i])]
        tp == [i \in 1..Len(p) |-> Companion(sz, p[i])]
    IN  [verts |-> verts \o tv, plaqs |-> plaqs \o tp]

get_stabs(gt, sz, act) ==
    IF gt = "toric" THEN toric_get_stabs(sz, act) ELSE planar_get_stabs(sz, act)

(***************************************************************************)
(* Edge weights.  An edge of the list is <<i0, i1, weight>>, 0-based.      *)
(***************************************************************************)
\* toric_weight with a fault: the shorter way round is not taken.
toric_weight_nowrap(sz, v0, v1) ==
    ((v0.sID[2] - v1.sID[2]) % sz) + ((v0.sID[3] - v1.sID[3]) % sz)

\* The weight toric.get_edges gives the pair (v0, v1).
toric_weight(sz, v0, v1) ==
    LET wy == (v0.sID[2] - v1.sID[2]) % sz
        wx == (v0.sID[3] - v1.sID[3]) % sz
    IN  Min2(wy, sz - wy) + Min2(wx, sz - wx)

\* toric.get_edges
toric_get_edges(sz, a) ==
    LET outer == SliceTo(a, -1)
        row(i0) ==
            LET inner == SliceFrom(a, i0 + 1)
            IN  [k \in 1..Len(inner) |->
                    <<i0, (k - 1) + i0 + 1, toric_weight(sz, outer[i0 + 1], inner[k])>>]
    IN  Flatten([n \in 1..Len(outer) |-> row(n - 1)])

\* The weight planar.get_edges gives a pair of real defects.
planar_weight(v0, v1) ==
    Abs(v0.sID[2] - v1.sID[2]) + Abs(v0.sID[3] - v1.sID[3])

\* boundary_weight with a fault: the axes of the two check types exchanged.
boundary_weight_swapped(s, b) ==
    IF b.sID[1] = 0 THEN Abs(b.sID[2] - s.sID[2]) ELSE Abs(b.sID[3] - s.sID[3])

\* The weight planar.get_edges gives a defect and its boundary companion.
boundary_weight(s, b) ==
    IF b.sID[1] = 0 THEN Abs(b.sID[3] - s.sID[3]) ELSE Abs(b.sID[2] - s.sID[2])

\* planar.get_edges
planar_get_edges(a) ==
    LET mid == Len(a) \div 2
        reals == SliceTo(a, mid - 1)
        rrow(i0) ==
            LET inner == SliceFromTo(a, i0 + 1, mid)
            IN  [k \in 1..Len(inner) |->
                    <<i0, (k - 1) + i0 + 1, planar_weight(reals[i0 + 1], inner[k])>>]
        virts == SliceTo(SliceFrom(a, mid), -1)
        vrow(i0) ==
            LET inner == SliceFrom(a, i0 + 1)
            IN  [k \in 1..Len(inner) |-> <<i0, (k - 1) + i0 + 1, 0>>]
        own == [n \in 1..mid |-> <<n - 1, mid + n - 1, boundary_weight(a[n], a[mid + n])>>]
    IN  Flatten([n \in 1..Len(reals) |-> rrow(n - 1)])
        \o Flatten([n \in 1..Len(virts) |-> vrow(mid + n - 1)])
        \o own

get_edges(gt, sz, a) ==
    IF gt = "toric" THEN toric_get_edges(sz, a) ELSE planar_get_edges(a)

(***************************************************************************)
(* The matching oracles.  A matching is a set of index pairs <<i, j>>,     *)
(* i < j; an oracle may return any optimal matching of the graph it is     *)
(* handed.                                                                 *)
(***************************************************************************)
\* nxgraph.add_edge(i0, i1, weight=-weight) for every edge of the list: the
\* graph is a function from the pair <<i0, i1>> to its weight attribute, and
\* adding an edge that is already present overwrites the attribute.
RECURSIVE AddEdges(_, _)
AddEdges(g, es) ==
    IF es = <<>> THEN g
    ELSE LET p == <<es[1][1], es[1][2]>>
         IN  AddEdges([q \in (DOMAIN g) \cup {p} |-> IF q = p THEN -es[1][3] ELSE g[q]],
                      Tail(es))

\* All matchings (sets of pairwise node-disjoint edges) within the edge set E.
RECURSIVE Matchings(_)
Matchings(E) ==
    IF E = {} THEN {{}}
    ELSE LET e == CHOOSE f \in E : TRUE
             rest == E \ {e}
             free == {f \in rest : {f[1], f[2]} \cap {e[1], e[2]} = {}}
         IN  Matchings(rest) \cup {M \cup {e} : M \in Matchings(free)}

RECURSIVE Total(_, _)
Total(g, M) ==
    IF M = {} THEN 0
    ELSE LET e == CHOOSE f \in M : TRUE IN g[e] + Total(g, M \ {e})

\* nx.algorithms.matching.max_weight_matching(g, maxcardinality=True): the
\* matchings of maximum total weight among those of maximum cardinality.
max_weight_matching(g) ==
    LET all == Matchings(DOMAIN g)
        full == {M \in all : \A N \in all : Cardinality(N) <= Cardinality(M)}
    IN  {M \in full : \A N \in full : Total(g, N) <= Total(g, M)}

\* pm.getMatching(n, edges): the perfect matchings of minimum total weight of
\* the graph on nodes 0..n-1 with the listed edges.
getMatching(n, es) ==
    LET g == [p \in {<<es[k][1], es[k][2]>> : k \in 1..Len(es)} |->
                 (CHOOSE k \in 1..Len(es) : <<es[k][1], es[k][2]>> = p)]
        w == [p \in DOMAIN g |-> es[g[p]][3]]
        perfect == {M \in Matchings(DOMAIN w) : 2 * Cardinality(M) = n}
    IN  {M \in perfect : \A N \in perfect : Total(w, M) <= Total(w, N)}

\* The orders and orientations in which a set of tuples can be iterated.
RECURSIVE PairSeqs(_)
PairSeqs(M) ==
    IF M = {} THEN {<<>>}
    ELSE UNION {{<<o>> \o s : o \in {p, <<p[2], p[1]>>}, s \in PairSeqs(M \ {p})} : p \in M}

\* [[anyons[i0], anyons[i1]] for i0, i1 in output]; an index outside the list
\* raises IndexError (ok = FALSE).
Lookup(a, s) ==
    IF \A k \in 1..Len(s) : s[k][1] < Len(a) /\ s[k][2] < Len(a)
    THEN [ok |-> TRUE, pairs |-> [k \in 1..Len(s) |-> <<a[s[k][1] + 1], a[s[k][2] + 1]>>]]
    ELSE [ok |-> FALSE, pairs |-> <<>>]

\* The results of the inner get_matching(anyons) of get_matching_networkx,
\* g being nxgraph after the edges of this partition were added.
nx_get_matching(g, a) ==
    {Lookup(a, s) : s \in UNION {PairSeqs(M) : M \in max_weight_matching(g)}}

\* The pairs i0 > i1 of enumerate(output), output[i] the mate of node i.
RECURSIVE MateSeq(_, _, _)
MateSeq(M, i0, n) ==
    IF i0 >= n THEN <<>>
    ELSE LET lower == {p \in M : p[2] = i0}
         IN  (IF lower = {} THEN <<>>
              ELSE LET p == CHOOSE q \in lower : TRUE IN <<(<<p[2], p[1]>>)>>)
             \o MateSeq(M, i0 + 1, n)

\* The results of the inner get_matching(anyons) of get_matching_blossom5.
b5_get_matching(es, a) ==
    {Lookup(a, MateSeq(M, 0, Len(a))) : M \in getMatching(Len(a), es)}

\* The graph an oracle was handed: its nodes and its edges <<i, j, weight>>.
NoGraph == [called |-> FALSE, nodes |-> {}, edges |-> {}]
NxGraph(g) ==
    [called |-> TRUE,
     nodes |-> UNION {{p[1], p[2]} : p \in DOMAIN g},
     edges |-> {<<p[1], p[2], -g[p]>> : p \in DOMAIN g}]
B5Graph(n, es) ==
    [called |-> TRUE, nodes |-> 0..(n - 1), edges |-> {es[k] : k \in 1..Len(es)}]

Skip == {[ok |-> TRUE, pairs |-> <<>>]}

(***************************************************************************)
(* Initial states: a lattice after construction and noise.                 *)
(***************************************************************************)
\* The subsets of {sq[1], ..., sq[n]} with k elements.
RECURSIVE KSub(_, _, _)
KSub(sq, n, k) ==
    IF k = 0 THEN {{}}
    ELSE IF n < k THEN {}
    ELSE KSub(sq, n - 1, k) \cup {A \cup {sq[n]} : A \in KSub(sq, n - 1, k - 1)}

\* The syndromes decoded: on the torus every check type has an even number of
\* defects; the open boundaries of the planar code allow any number.  At most
\* per defects of one type and tot in all.
DefectCounts(gt, per, tot) ==
    {c \in (0..per) \X (0..per) :
        /\ c[1] + c[2] <= tot
        /\ gt = "toric" => (c[1] % 2 = 0 /\ c[2] % 2 = 0)}

DefectSets(gt, sz, per, tot) ==
    LET n == sz * sz
        vs == SubSeq(SValues(sz), 1, n)
        ps == SubSeq(SValues(sz), n + 1, 2 * n)
    IN  UNION {{V \cup P : V \in KSub(vs, n, c[1]), P \in KSub(ps, n, c[2])} :
                  c \in DefectCounts(gt, per, tot)}

\* A decoder on a freshly built lattice: no edge carries an error or a
\* correction mark, nothing is matched yet.
Fresh ==
    /\ estate = {}
    /\ ematching = {}
    /\ matching = <<>>
    /\ pc = "start"
    /\ oracle = "none"
    /\ anyons = [verts |-> <<>>, plaqs |-> <<>>]
    /\ edges = [verts |-> <<>>, plaqs |-> <<>>]
    /\ graph = [verts |-> NoGraph, plaqs |-> NoGraph]
    /\ err = FALSE
    /\ pre = <<>>
    /\ hist = <<>>
    /\ napply = 0
    /\ trail = <<>>

Init ==
    /\ gtype \in {"toric", "planar"}
    /\ size \in 2..MaxSize
    /\ active \in DefectSets(gtype, size, MaxDefects, MaxDefects)
    /\ Fresh

InitWide ==
    /\ gtype \in {"toric", "planar"}
    /\ size \in 3..WideSize
    /\ active \in DefectSets(gtype, size, WidePerType, WideDefects)
    /\ Fresh

(***************************************************************************)
(* Matching.                                                               *)
(***************************************************************************)
\* toric.get_matching_networkx: one nxgraph serves both partitions.
get_matching_networkx ==
    /\ pc = "start"
    /\ LET st == get_stabs(gtype, size, active)
           ev == IF st.verts # <<>> THEN get_edges(gtype, size, st.verts) ELSE <<>>
           ep == IF st.plaqs # <<>> THEN get_edges(gtype, size, st.plaqs) ELSE <<>>
           g1 == AddEdges(<<>>, ev)
           g2 == AddEdges(g1, ep)
       IN  \E rv \in (IF st.verts # <<>> THEN nx_get_matching(g1, st.verts) ELSE Skip) :
           \E rp \in (IF rv.ok /\ st.plaqs # <<>>
                      THEN nx_get_matching(g2, st.plaqs) ELSE Skip) :
              /\ anyons' = st
              /\ edges' = [verts |-> ev, plaqs |-> IF rv.ok THEN ep ELSE <<>>]
              /\ graph' = [verts |-> IF st.verts # <<>> THEN NxGraph(g1) ELSE NoGraph,
                           plaqs |-> IF rv.ok /\ st.plaqs # <<>>
                                     THEN NxGraph(g2) ELSE NoGraph]
              /\ matching' = rv.pairs \o rp.pairs
              /\ err' = ~(rv.ok /\ rp.ok)
              /\ pc' = IF rv.ok /\ rp.ok THEN "matched" ELSE "failed"
    /\ oracle' = "networkx"
    /\ UNCHANGED <<gtype, size, active, estate, ematching, pre, hist, napply, trail>>

\* toric.get_matching_blossom5: each partition's edge list goes to the oracle.
get_matching_blossom5 ==
    /\ pc = "start"
    /\ LET st == get_stabs(gtype, size, active)
           ev == IF st.verts # <<>> THEN get_edges(gtype, size, st.verts) ELSE <<>>
           ep == IF st.plaqs # <<>> THEN get_edges(gtype, size, st.plaqs) ELSE <<>>
       IN  \E rv \in (IF st.verts # <<>> THEN b5_get_matching(ev, st.verts) ELSE Skip) :
           \E rp \in (IF rv.ok /\ st.plaqs # <<>>
                      THEN b5_get_matching(ep, st.plaqs) ELSE Skip) :
              /\ anyons' = st
              /\ edges' = [verts |-> ev, plaqs |-> IF rv.ok THEN ep ELSE <<>>]
              /\ graph' = [verts |-> IF st.verts # <<>>
                                     THEN B5Graph(Len(st.verts), ev) ELSE NoGraph,
                           plaqs |-> IF rv.ok /\ st.plaqs # <<>>
                                     THEN B5Graph(Len(st.plaqs), ep) ELSE NoGraph]
              /\ matching' = rv.pairs \o rp.pairs
              /\ err' = ~(rv.ok /\ rp.ok)
              /\ pc' = IF rv.ok /\ rp.ok THEN "matched" ELSE "failed"
    /\ oracle' = "blossom5"
    /\ UNCHANGED <<gtype, size, active, estate, ematching, pre, hist, napply, trail>>

(***************************************************************************)
(* Boundary filter.                                                        *)
(***************************************************************************)
\* remove_virtual_loop with a fault: a pair is dropped when either member is a
\* boundary node.
RECURSIVE remove_virtual_loop_or(_, _)
remove_virtual_loop_or(m, acc) ==
    IF m = <<>> THEN acc
    ELSE remove_virtual_loop_or(Tail(m),
             IF ~(m[1][1].kind = "iBoundary" \/ m[1][2].kind = "iBoundary")
             THEN Append(acc, m[1]) ELSE acc)

\* The loop of planar.remove_virtual over the pairs m, appending to acc.
RECURSIVE remove_virtual_loop(_, _)
remove_virtual_loop(m, acc) ==
    IF m = <<>> THEN acc
    ELSE LET V1 == m[1][1]
             V2 == m[1][2]
         IN  remove_virtual_loop(Tail(m),
                 IF ~(V1.kind = "iBoundary" /\ V2.kind = "iBoundary")
                 THEN Append(acc, <<V1, V2>>) ELSE acc)

\* planar.remove_virtual
remove_virtual ==
    /\ gtype = "planar"
    /\ pc = "matched"
    /\ pre' = matching
    /\ matching' = remove_virtual_loop(matching, <<>>)
    /\ pc' = "filtered"
    /\ UNCHANGED <<gtype, size, active, estate, ematching, oracle, anyons, edges,
                   graph, err, hist, napply, trail>>

(***************************************************************************)
(* Correction application.                                                 *)
(***************************************************************************)
Toggle(S, e) == IF e \in S THEN S \ {e} ELSE S \cup {e}

\* flip with a fault: edge.state is set instead of negated.
flip_set(w, e) == [w EXCEPT !.state = @ \cup {e}, !.matching = Toggle(@, e)]

\* One iteration of a walking loop of apply_matching on the edge object e.
flip(w, e) == [w EXCEPT !.state = Toggle(@, e), !.matching = Toggle(@, e)]

\* for k in range(n): (at, edge) = at.neighbors[dir]; flip edge.  w carries the
\* edge flags, the walker's position, the edges traversed and whether every
\* link was present (a missing key raises KeyError and ends the call).
RECURSIVE walk(_, _, _, _, _)
walk(gt, sz, dir, n, w) ==
    IF n <= 0 \/ ~w.ok THEN w
    ELSE LET nb == Neighbor(gt, sz, w.at, dir)
         IN  IF ~nb.ok THEN [w EXCEPT !.ok = FALSE]
             ELSE walk(gt, sz, dir, n - 1,
                       [flip(w, nb.edge) EXCEPT !.at = nb.node,
                                                !.steps = Append(@, nb.edge)])

\* The deltas of a matched pair: modulo size on the torus, signed otherwise.
deltas(gt, sz, v0, v1) ==
    LET y0 == v0.sID[2]
        x0 == v0.sID[3]
        y1 == v1.sID[2]
        x1 == v1.sID[3]
    IN  IF gt = "toric"
        THEN [dy0 |-> (y0 - y1) % sz, dx0 |-> (x0 - x1) % sz,
              dy1 |-> (y1 - y0) % sz, dx1 |-> (x1 - x0) % sz]
        ELSE [dy0 |-> y0 - y1, dx0 |-> x0 - x1, dy1 |-> y1 - y0, dx1 |-> x1 - x0]

\* route with a fault: the column walk goes the other way.
route_swapped(gt, sz, v0, v1) ==
    LET d == deltas(gt, sz, v0, v1)
    IN  [dy |-> IF d.dy0 < d.dy1 THEN d.dy0 ELSE d.dy1,
         yd |-> IF d.dy0 < d.dy1 THEN "u" ELSE "d",
         dx |-> IF d.dx0 < d.dx1 THEN d.dx0 ELSE d.dx1,
         xd |-> IF d.dx0 < d.dx1 THEN "l" ELSE "r"]

\* The closest path and walking directions chosen for a matched pair.
route(gt, sz, v0, v1) ==
    LET d == deltas(gt, sz, v0, v1)
    IN  [dy |-> IF d.dy0 < d.dy1 THEN d.dy0 ELSE d.dy1,
         yd |-> IF d.dy0 < d.dy1 THEN "u" ELSE "d",
         dx |-> IF d.dx0 < d.dx1 THEN d.dx0 ELSE d.dx1,
         xd |-> IF d.dx0 < d.dx1 THEN "r" ELSE "l"]

\* The body of the loop of apply_matching for the pair (v0, v1): a row walk
\* from v0, then a column walk from v1.  a carries the edge flags, the record
\* of the walks done so far in this call, and ok.
apply_pair(gt, sz, v0, v1, a) ==
    LET r == route(gt, sz, v0, v1)
        wy == walk(gt, sz, r.yd, r.dy,
                   [state |-> a.state, matching |-> a.matching, ok |-> TRUE,
                    at |-> v0, steps |-> <<>>])
        wx == IF wy.ok
              THEN walk(gt, sz, r.xd, r.dx,
                        [state |-> wy.state, matching |-> wy.matching, ok |-> TRUE,
                         at |-> v1, steps |-> <<>>])
              ELSE [wy EXCEPT !.at = v1, !.steps = <<>>]
    IN  [state |-> wx.state, matching |-> wx.matching, ok |-> wx.ok,
         trail |-> Append(a.trail,
                     [v0 |-> v0, v1 |-> v1, dy |-> r.dy, dx |-> r.dx,
                      yd |-> r.yd, xd |-> r.xd,
                      ysteps |-> wy.steps, xsteps |-> wx.steps,
                      ynext |-> wy.at, xnext |-> wx.at])]

\* for v0, v1 in self.matching: ...
RECURSIVE apply_loop(_, _, _, _)
apply_loop(gt, sz, m, a) ==
    IF m = <<>> \/ ~a.ok THEN a
    ELSE apply_loop(gt, sz, Tail(m), apply_pair(gt, sz, m[1][1], m[1][2], a))

\* toric.apply_matching (inherited by planar)
apply_matching ==
    /\ \/ gtype = "toric" /\ pc = "matched"
       \/ gtype = "planar" /\ pc = "filtered"
       \/ pc = "applied"
    /\ napply < MaxApply
    /\ LET a == apply_loop(gtype, size, matching,
                           [state |-> estate, matching |-> ematching, ok |-> TRUE,
                            trail |-> <<>>])
       IN  /\ estate' = a.state
           /\ ematching' = a.matching
           /\ trail' = a.trail
           /\ err' = ~a.ok
           /\ pc' = IF a.ok THEN "applied" ELSE "failed"
    /\ hist' = Append(hist, estate)
    /\ napply' = napply + 1
    /\ UNCHANGED <<gtype, size, active, matching, oracle, anyons, edges, graph, pre>>

Next ==
    \/ get_matching_networkx
    \/ get_matching_blossom5
    \/ remove_virtual
    \/ apply_matching

\* The decoding pipeline: match, filter (planar), apply the correction.
Spec == Init /\ [][Next]_vars

\* The same pipeline on larger lattices with more defects.
SpecWide == InitWide /\ [][Next]_vars

(***************************************************************************)
(* The edge-weight model on its own: any defects of one check type, and    *)
(* the first steps of the inner get_matching (get_stabs, get_edges).       *)
(***************************************************************************)
ListSets(sz) ==
    LET n == sz * sz
        vs == SubSeq(SValues(sz), 1, n)
        ps == SubSeq(SValues(sz), n + 1, 2 * n)
    IN  UNION {KSub(vs, n, c) \cup KSub(ps, n, c) : c \in 0..MaxList}

InitEdges ==
    /\ gtype \in {"toric", "planar"}
    /\ size \in 2..EdgeSize
    /\ active \in ListSets(size)
    /\ Fresh

\* verts, plaqs = self.get_stabs(); edges = self.get_edges(anyons) for each
\* non-empty partition.
build_edges ==
    /\ pc = "start"
    /\ LET st == get_stabs(gtype, size, active)
       IN  /\ anyons' = st
           /\ edges' = [verts |-> IF st.verts # <<>>
                                  THEN get_edges(gtype, size, st.verts) ELSE <<>>,
                        plaqs |-> IF st.plaqs # <<>>
                                  THEN get_edges(gtype, size, st.plaqs) ELSE <<>>]
    /\ pc' = "edges"
    /\ UNCHANGED <<gtype, size, active, estate, ematching, matching, oracle, graph,
                   err, pre, hist, napply, trail>>

NextEdges == build_edges

SpecEdges == InitEdges /\ [][NextEdges]_vars

(***************************************************************************)
(* Properties.                                                             *)
(***************************************************************************)
Parts == {"verts", "plaqs"}
IsReal(v) == v.kind = "iStab"
IsVirtual(v) == v.kind = "iBoundary"
ListsBuilt == pc # "start"

\* The Manhattan distance on the torus of side sz: the shortest of the
\* representatives of the row and column differences.
TorusDist(sz, p, q) ==
    LET along(d) == CHOOSE m \in {Abs(d + k * sz) : k \in {-1, 0, 1}} :
                        \A k \in {-1, 0, 1} : m <= Abs(d + k * sz)
    IN  along(p.sID[2] - q.sID[2]) + along(p.sID[3] - q.sID[3])

\* The entries of an edge list joining list positions i and j (0-based).
EdgesOf(es, i, j) == {k \in 1..Len(es) : {es[k][1], es[k][2]} = {i, j}}

\* C3. Toric edge weights: toric.get_edges emits exactly one edge [i, j, w]
\* for each index pair i < j and nothing else; w is the Manhattan distance on
\* the torus of side size between defect i and defect j, is unchanged when the
\* two defects are swapped, and 0 <= w <= 2 * floor(size / 2).
C3_ToricEdgeWeights ==
    (gtype = "toric" /\ ListsBuilt) =>
        \A part \in Parts :
            LET a == anyons[part]
                es == edges[part]
                n == Len(a)
            IN  /\ \A k \in 1..Len(es) :
                      /\ 0 <= es[k][1] /\ es[k][1] < es[k][2] /\ es[k][2] < n
                      /\ es[k][3] = TorusDist(size, a[es[k][1] + 1], a[es[k][2] + 1])
                      /\ es[k][3] = toric_weight(size, a[es[k][2] + 1], a[es[k][1] + 1])
                      /\ 0 <= es[k][3] /\ es[k][3] <= 2 * (size \div 2)
                /\ \A i \in 0..(n - 1) : \A j \in (i + 1)..(n - 1) :
                      Cardinality({k \in 1..Len(es) : es[k][1] = i /\ es[k][2] = j}) = 1

\* A toric list of three defects with an edge whose weight wraps around.
C3_Witness ==
    /\ gtype = "toric" /\ pc = "edges"
    /\ Len(anyons.verts) = 3
    /\ \E k \in 1..Len(edges.verts) :
          edges.verts[k][3] <
              planar_weight(anyons.verts[edges.verts[k][1] + 1],
                            anyons.verts[edges.verts[k][2] + 1])

\* The single perpendicular coordinate distance of a defect to a boundary
\* node: columns for the vertex type, rows for the plaquette type.
PerpDist(s, b) ==
    IF s.sID[1] = 0 THEN Abs(s.sID[3] - b.sID[3]) ELSE Abs(s.sID[2] - b.sID[2])

\* C4. Planar edge list: for a node list of length 2*mid (mid >= 1 real
\* defects followed by their boundary companions) planar.get_edges emits
\* exactly one edge per real-real pair i < j < mid with weight
\* |row_i - row_j| + |col_i - col_j|, one edge per virtual-virtual pair
\* mid <= i < j < 2*mid with weight 0, and one edge (i, mid+i) per real defect
\* weighing its perpendicular distance to its companion; no other edge, and
\* no pair twice.
C4_PlanarEdgeList ==
    (gtype = "planar" /\ ListsBuilt) =>
        \A part \in Parts :
            LET a == anyons[part]
                es == edges[part]
                mid == Len(a) \div 2
                rr == {<<i, j, Abs(a[i + 1].sID[2] - a[j + 1].sID[2])
                               + Abs(a[i + 1].sID[3] - a[j + 1].sID[3])>> :
                          i \in 0..(mid - 1), j \in 0..(mid - 1)}
                vv == {<<i, j, 0>> : i \in mid..(2 * mid - 1), j \in mid..(2 * mid - 1)}
                own == {<<i, mid + i, PerpDist(a[i + 1], a[mid + i + 1])>> :
                           i \in 0..(mid - 1)}
                want == {e \in rr \cup vv : e[1] < e[2]} \cup own
            IN  mid >= 1 =>
                  /\ Len(a) = 2 * mid
                  /\ {es[k] : k \in 1..Len(es)} = want
                  /\ Cardinality({<<es[k][1], es[k][2]>> : k \in 1..Len(es)}) = Len(es)
                  /\ \A k \in 1..Len(es) :
                        (es[k][1] < mid /\ es[k][2] >= mid) => es[k][2] = mid + es[k][1]

\* A planar list with two or more real defects, one of them at a positive
\* distance from its companion.
C4_Witness ==
    /\ gtype = "planar" /\ pc = "edges"
    /\ Len(anyons.plaqs) >= 4
    /\ \E k \in 1..Len(edges.plaqs) :
          /\ edges.plaqs[k][2] = edges.plaqs[k][1] + Len(anyons.plaqs) \div 2
          /\ edges.plaqs[k][3] > 0

BothVirtual(pair) == IsVirtual(pair[1]) /\ IsVirtual(pair[2])

\* C5. Boundary filter: after planar.remove_virtual, self.matching holds no
\* pair of two virtual boundary nodes, and holds every other pair of the
\* matching before the call, unchanged and in the same relative order.
C5_BoundaryFilter ==
    pc = "filtered" =>
        LET keep == {i \in 1..Len(pre) : ~BothVirtual(pre[i])}
            nth(k) == CHOOSE i \in keep : Cardinality({j \in keep : j <= i}) = k
        IN  /\ \A k \in 1..Len(matching) : ~BothVirtual(matching[k])
            /\ Len(matching) = Cardinality(keep)
            /\ \A k \in 1..Len(matching) : matching[k] = pre[nth(k)]

\* The filter dropped a virtual-virtual pair and kept another pair.
C5_Witness ==
    /\ pc = "filtered"
    /\ Len(matching) < Len(pre)
    /\ Len(matching) >= 1

\* C6. Idempotence of correction: apply_matching followed by apply_matching
\* with the identical self.matching returns edge.state of every edge to its
\* value before the first of the two calls.
C6_Idempotence ==
    napply >= 2 => estate = hist[napply - 1]

\* Two calls were made and the second one changed edge states.
C6_Witness ==
    /\ napply >= 2
    /\ pc = "applied"
    /\ estate # hist[napply]

\* C9. Toric L-path: for every matched pair (v0, v1) apply_matching walks
\* min(dy0, dy1) row steps from v0 (up iff dy0 < dy1) and min(dx0, dx1) column
\* steps from v1 (right iff dx0 < dx1), and both legs end at the stabilizer at
\* (row of v1, column of v0); the row leg stays in the column of v0 and the
\* column leg in the row of v1.
C9_ToricLPath ==
    (gtype = "toric" /\ pc = "applied") =>
        \A n \in 1..Len(trail) :
            LET r == trail[n]
                t == r.v0.sID[1]
                y0 == r.v0.sID[2]
                x0 == r.v0.sID[3]
                y1 == r.v1.sID[2]
                x1 == r.v1.sID[3]
                dy0 == (y0 - y1) % size
                dy1 == (y1 - y0) % size
                dx0 == (x0 - x1) % size
                dx1 == (x1 - x0) % size
            IN  /\ r.v0 = matching[n][1] /\ r.v1 = matching[n][2]
                /\ Len(r.ysteps) = Min2(dy0, dy1)
                /\ Len(r.xsteps) = Min2(dx0, dx1)
                /\ r.yd = (IF dy0 < dy1 THEN "u" ELSE "d")
                /\ r.xd = (IF dx0 < dx1 THEN "r" ELSE "l")
                /\ r.ynext = iStab(<<t, y1, x0>>)
                /\ r.xnext = iStab(<<t, y1, x0>>)
                /\ \A k \in 1..Len(r.ysteps) :
                      r.ysteps[k][1] = t /\ r.ysteps[k][2] = "v" /\ r.ysteps[k][4] = x0
                /\ \A k \in 1..Len(r.xsteps) :
                      r.xsteps[k][1] = t /\ r.xsteps[k][2] = "h" /\ r.xsteps[k][3] = y1

\* A toric pair was corrected along a path with a row leg and a column leg.
C9_Witness ==
    /\ gtype = "toric" /\ pc = "applied"
    /\ \E n \in 1..Len(trail) : Len(trail[n].ysteps) > 0 /\ Len(trail[n].xsteps) > 0

\* The position (1-based) of the real defect v in the list a.
Pos(a, v) == CHOOSE i \in 1..Len(a) : a[i] = v

PartOf(v) == IF v.sID[1] = 0 THEN "verts" ELSE "plaqs"

\* C1. Path length: for every matched pair of two real stabilizers, toric or
\* planar, the number of edges apply_matching toggles for the pair equals
\* dy + dx as computed by the walker and equals the weight get_edges gave the
\* pair (toric size 4, vertex defects (0,0) and (0,2): 2 edges).
C1_PathLength ==
    pc = "applied" =>
        \A n \in 1..Len(trail) :
            LET r == trail[n]
                toggled == Len(r.ysteps) + Len(r.xsteps)
                a == anyons[PartOf(r.v0)]
                es == edges[PartOf(r.v0)]
                ks == EdgesOf(es, Pos(a, r.v0) - 1, Pos(a, r.v1) - 1)
            IN  (IsReal(r.v0) /\ IsReal(r.v1)) =>
                  /\ toggled = r.dy + r.dx
                  /\ ks # {}
                  /\ \A k \in ks : es[k][3] = toggled

\* The number of times node v occurs in the pairs of a matching m.
Occurs(m, v) ==
    Cardinality({k \in 1..Len(m) : m[k][1] = v})
    + Cardinality({k \in 1..Len(m) : m[k][2] = v})

\* The number of positions of the list a that hold node v.
Holds(a, v) == Cardinality({i \in 1..Len(a) : a[i] = v})

\* C2. Per-partition perfect matching: with both node lists of even length,
\* after get_matching_networkx and after get_matching_blossom5 self.matching
\* pairs nodes of the same check type only, and every entry of both lists is
\* in exactly one pair; the oracle was called once per non-empty partition on
\* a graph holding only that partition's nodes and the edges of get_edges.
C2_PerPartitionPerfectMatching ==
    (/\ oracle # "none"
     /\ napply = 0
     /\ pc \in {"matched", "failed"}
     /\ Len(anyons.verts) % 2 = 0
     /\ Len(anyons.plaqs) % 2 = 0) =>
        /\ ~err
        /\ \A k \in 1..Len(matching) :
              /\ matching[k][1].sID[1] = matching[k][2].sID[1]
              /\ \A v \in {matching[k][1], matching[k][2]} :
                    Holds(anyons[PartOf(v)], v) > 0
        /\ \A part \in Parts : \A i \in 1..Len(anyons[part]) :
              Occurs(matching, anyons[part][i]) = Holds(anyons[part], anyons[part][i])
        /\ \A part \in Parts :
              anyons[part] # <<>> =>
                /\ graph[part].called
                /\ graph[part].nodes \subseteq 0..(Len(anyons[part]) - 1)
                /\ graph[part].edges =
                      LET es == get_edges(gtype, size, anyons[part])
                      IN  {es[k] : k \in 1..Len(es)}

\* C7. Nearest-boundary companion: planar.get_stabs gives every active defect
\* exactly one companion, at index mid+i for the defect at index i: column 0
\* if x < size/2 else column size for a vertex, row -1 if y < size/2 else row
\* size-1 for a plaquette; and the companion is no farther from the defect
\* than the boundary node on the opposite side.
C7_NearestBoundary ==
    (gtype = "planar" /\ ListsBuilt) =>
        \A part \in Parts :
            LET a == anyons[part]
                mid == Len(a) \div 2
                t == IF part = "verts" THEN 0 ELSE 1
            IN  /\ Len(a) = 2 * mid
                /\ mid = Cardinality({s \in active : s[1] = t})
                /\ {a[i].sID : i \in 1..mid} = {s \in active : s[1] = t}
                /\ \A i \in 1..mid :
                      LET y == a[i].sID[2]
                          x == a[i].sID[3]
                          b == a[mid + i]
                      IN  /\ IsReal(a[i]) /\ IsVirtual(b)
                          /\ t = 0 =>
                                LET c == IF 2 * x < size THEN 0 ELSE size
                                IN  /\ b.sID = <<0, y, c>>
                                    /\ Abs(x - c) <= Abs(x - (size - c))
                          /\ t = 1 =>
                                LET c == IF 2 * y < size THEN -1 ELSE size - 1
                                IN  /\ b.sID = <<1, c, x>>
                                    /\ Abs(y - c) <= Abs(y - (size - 2 - c))

\* The pair (s, b) is a real defect with its own boundary companion.
OwnCompanion(s, b) ==
    /\ IsReal(s) /\ IsVirtual(b)
    /\ LET a == anyons[PartOf(s)]
           mid == Len(a) \div 2
       IN  \E i \in 1..mid : a[i] = s /\ a[mid + i] = b

\* C8. Planar real-to-boundary correction: for every matched pair of a real
\* defect and its boundary companion, apply_matching toggles one straight leg
\* perpendicular to the boundary, as long as the defect's distance to the
\* boundary, toggles no edge along the other axis, and raises no error.
C8_RealToBoundary ==
    (gtype = "planar" /\ napply >= 1) =>
        /\ ~err
        /\ \A n \in 1..Len(trail) :
              LET r == trail[n]
                  s == IF IsReal(r.v0) THEN r.v0 ELSE r.v1
                  b == IF IsReal(r.v0) THEN r.v1 ELSE r.v0
                  perp == IF s.sID[1] = 0 THEN Len(r.xsteps) ELSE Len(r.ysteps)
                  other == IF s.sID[1] = 0 THEN Len(r.ysteps) ELSE Len(r.xsteps)
              IN  OwnCompanion(s, b) => (perp = PerpDist(s, b) /\ other = 0)

\* C10. Correction marking: when apply_matching finishes, every edge some
\* walk of that call traversed has edge.matching = True, whatever its value
\* before the call, also when apply_matching runs again on the same lattice.
C10_CorrectionMarking ==
    pc = "applied" =>
        \A n \in 1..Len(trail) :
            /\ \A k \in 1..Len(trail[n].ysteps) : trail[n].ysteps[k] \in ematching
            /\ \A k \in 1..Len(trail[n].xsteps) : trail[n].xsteps[k] \in ematching
====
